---- MODULE Spec2Model ----
(***************************************************************************)
(* Model of AlgoritmoGenetico (src/algoritmos_geneticos.py): a genetic     *)
(* algorithm searching integer triples [x, y, z] that minimise             *)
(* |a*x + b*y + c*z - d|.                                                  *)
(*                                                                         *)
(* Random numbers are the inputs of the model.  A draw of random.random()  *)
(* is k / DrawScale for k in 0 .. DrawScale - 1, and the two rates are     *)
(* kept in the same unit (taxa = DrawScale stands for 1.0).  The draw 0.0  *)
(* is a value random.random() can return, and it is among the draws.       *)
(***************************************************************************)
EXTENDS Integers, Sequences, FiniteSets, TLC

\* ------------------------------------------------------------------ bounds
MaxPop == 3
MaxGeracoes == 2
DrawScale == 2

\* ------------------------------------------------------- program constants
NumGenes == 3
TamanhoTorneio == 3
NumElite == 2
MutacaoMax == 10
\* float('inf'): fitness values are >= 0, so -1 is free to stand for it
Inf == -1
\* a local name that has not been bound yet
Indefinida == -1
\* None
Nenhum == << >>

VARIABLES
    cfg,                \* the attributes __init__ stores and never changes
    chamadas,           \* calls of executar the caller still makes
    historico_fitness,  \* self.historico_fitness
    melhor_individuo,   \* self.melhor_individuo
    melhor_fitness,     \* self.melhor_fitness
    pc,                 \* position of the running executar
    geracao,            \* local of executar
    populacao,          \* local of executar
    populacao_avaliada, \* local of executar
    nova_populacao,     \* local of executar
    retornos,           \* the values executar returned, one per call
    argumentos,         \* << pai1, pai2 >> of a direct call of cruzamento_uniforme
    resultado,          \* what that call returned
    avaliados,          \* history variable: every fitness avaliar_populacao computed
    total_geracoes      \* history variable: loop bodies entered, all calls together

vars == << cfg, chamadas, historico_fitness, melhor_individuo, melhor_fitness,
           pc, geracao, populacao, populacao_avaliada, nova_populacao,
           retornos, argumentos, resultado, avaliados, total_geracoes >>

\* ------------------------------------------------------------ pure helpers
Abs(n) == IF n < 0 THEN -n ELSE n

Max2(x, y) == IF x >= y THEN x ELSE y

Min2(x, y) == IF x <= y THEN x ELSE y

\* random.random()
Draws == 0 .. (DrawScale - 1)

\* random.randint(-10, 10)
Deltas == (0 - MutacaoMax) .. MutacaoMax

\* random.randint(range_min, range_max), three times; empty when range_min > range_max
Individuos(c) == [1 .. NumGenes -> c.range_min .. c.range_max]

calcular_fitness(c, individuo) ==
    Abs(c.a * individuo[1] + c.b * individuo[2] + c.c * individuo[3] - c.d)

\* x < y for fitness values, y possibly float('inf')
MenorQue(x, y) == IF y = Inf THEN x # Inf ELSE (x # Inf /\ x < y)

\* the best of the generation replaces the best so far whatever its fitness
MelhorouSempre(atual, melhor) == TRUE

\* line 175: the best of the generation replaces the best so far
Melhorou(atual, melhor) == MenorQue(atual, melhor)

\* the stopping criterion never met
ConvergiuNunca(fitness) == FALSE

\* line 189: the stopping criterion
Convergiu(fitness) == fitness = 0

\* the new population taken whole
AjustarSemCorte(nova, n) == nova

\* nova_populacao[-tamanho_populacao:]
AjustarPeloFim(nova, n) == SubSeq(nova, Len(nova) - n + 1, Len(nova))

\* line 218: nova_populacao[:tamanho_populacao]
Ajustar(nova, n) == SubSeq(nova, 1, n)

\* populacao_avaliada[:1]
EliteSoDoMelhor(pa) == [i \in 1 .. Min2(1, Len(pa)) |-> pa[i][1]]

\* line 203: populacao_avaliada[:2], individuals only
Elite(pa) == [i \in 1 .. Min2(NumElite, Len(pa)) |-> pa[i][1]]

\* list.sort(key = fitness) is stable: an element goes behind those of smaller
\* key and behind those of equal key that stood before it
Posicao(s, i) ==
    1 + Cardinality({j \in 1 .. Len(s) :
                        s[j][2] < s[i][2] \/ (s[j][2] = s[i][2] /\ j < i)})

Ordenar(s) ==
    [k \in 1 .. Len(s) |-> s[CHOOSE i \in 1 .. Len(s) : Posicao(s, i) = k]]

avaliar_populacao(c, pop) ==
    Ordenar([i \in 1 .. Len(pop) |-> << pop[i], calcular_fitness(c, pop[i]) >>])

\* sum(ind[1] for ind in populacao_avaliada)
SomaFitness(pa) ==
    LET soma[i \in 0 .. Len(pa)] == IF i = 0 THEN 0 ELSE soma[i - 1] + pa[i][2]
    IN  soma[Len(pa)]

\* random.sample(populacao_avaliada, tamanho_torneio): positions, in the order drawn
Amostras(n) ==
    {am \in [1 .. TamanhoTorneio -> 1 .. n] :
        \A i, j \in 1 .. TamanhoTorneio : i # j => am[i] # am[j]}

\* min(candidatos, key = fitness) keeps the first candidate of least fitness
selecao_torneio(pa, am) ==
    LET k == CHOOSE i \in 1 .. TamanhoTorneio :
                 /\ \A j \in 1 .. TamanhoTorneio : pa[am[i]][2] <= pa[am[j]][2]
                 /\ \A j \in 1 .. (i - 1) : pa[am[j]][2] > pa[am[i]][2]
    IN  pa[am[k]][1]

\* every individual a tournament over pa can return
Vencedores(pa) == {selecao_torneio(pa, am) : am \in Amostras(Len(pa))}

\* r is the draw compared with the rate, moedas the three draws of the gene loop
cruzamento_uniforme(c, pai1, pai2, r, moedas) ==
    IF r > c.taxa_cruzamento
    THEN << pai1, pai2 >>
    ELSE << [i \in 1 .. NumGenes |-> IF 2 * moedas[i] < DrawScale THEN pai2[i] ELSE pai1[i]],
            [i \in 1 .. NumGenes |-> IF 2 * moedas[i] < DrawScale THEN pai1[i] ELSE pai2[i]] >>

Cruzamentos(c, pai1, pai2) ==
    {cruzamento_uniforme(c, pai1, pai2, r, moedas) :
        r \in Draws, moedas \in [1 .. NumGenes -> Draws]}

\* the clamp one step too wide on either side
MutarGeneFolgado(c, g, r, m) ==
    IF r < c.taxa_mutacao
    THEN Max2(c.range_min - 1, Min2(c.range_max + 1, g + m))
    ELSE g

\* one pass of the gene loop of mutacao: r the draw, m the value of randint(-10, 10)
MutarGene(c, g, r, m) ==
    IF r < c.taxa_mutacao
    THEN Max2(c.range_min, Min2(c.range_max, g + m))
    ELSE g

\* the draws of the genes are independent, so the results of mutacao are the
\* product of the results gene by gene
GenesMutados(c, g) == {MutarGene(c, g, r, m) : r \in Draws, m \in Deltas}

\* every individual mutacao(individuo) can return
Mutacoes(c, individuo) ==
    {f \in [1 .. NumGenes -> UNION {GenesMutados(c, individuo[i]) : i \in 1 .. NumGenes}] :
        \A i \in 1 .. NumGenes : f[i] \in GenesMutados(c, individuo[i])}

\* lines 207-213: the pairs << filho1, filho2 >> one pass of the while loop can append
Filhos(c, pa) ==
    LET v == Vencedores(pa)
        cruzados == UNION {Cruzamentos(c, p1, p2) : p1 \in v, p2 \in v}
    IN  UNION {{<< f1, f2 >> : f1 \in Mutacoes(c, par[1]), f2 \in Mutacoes(c, par[2])} :
                  par \in cruzados}

\* --------------------------------------------------------- configurations
Config(eq, n, tc, tm, g, faixa) ==
    [a |-> eq[1], b |-> eq[2], c |-> eq[3], d |-> eq[4],
     tamanho_populacao |-> n, taxa_cruzamento |-> tc, taxa_mutacao |-> tm,
     max_geracoes |-> g, range_min |-> faixa[1], range_max |-> faixa[2]]

\* x + y + z = 1 has solutions in the range, x - y = 2 has none
EquacaoSoluvel == << 1, 1, 1, 1 >>

EquacaoInsoluvel == << 1, -1, 0, 2 >>

Equacoes == {EquacaoSoluvel, EquacaoInsoluvel}

Faixa == << 0, 1 >>

FaixaInvertida == << 1, 0 >>

\* a range of one value
FaixaUnica == << 0, 0 >>

\* every population size; crossover always, no mutation
ConfigsTamanhos ==
    {Config(EquacaoSoluvel, n, DrawScale, 0, MaxGeracoes, Faixa) : n \in 1 .. MaxPop}

\* the smallest population whose tournaments leave an individual out; plain copies
ConfigsTorneio ==
    {Config(eq, TamanhoTorneio + 1, 0, 0, 1, Faixa) : eq \in Equacoes}

\* the smallest population that reproduces; both rates strictly between 0 and 1
ConfigsMutacao ==
    {Config(eq, TamanhoTorneio, 1, 1, 2, Faixa) : eq \in Equacoes}

\* populations that take several passes of the while loop, over the range of one value
ConfigsGrandes ==
    {Config(EquacaoInsoluvel, n, 1, 1, MaxGeracoes, FaixaUnica) :
        n \in (MaxPop + 1) .. (MaxPop + 3)}

\* a population of elites only, on which executar is called twice
ConfigsRepetidas ==
    {Config(eq, n, 0, DrawScale, g, Faixa) :
        eq \in Equacoes, n \in 1 .. NumElite, g \in 1 .. MaxGeracoes}

\* configurations outside what the constructor documents: an empty population, a
\* rate above 1, a rate below 0, no generation, an inverted range
ConfigsInvalidas ==
    {Config(EquacaoSoluvel, n, tc, tm, g, fx) :
        n \in {0, TamanhoTorneio}, tc \in {DrawScale, DrawScale + 1},
        tm \in {0, -1}, g \in {0, 1}, fx \in {Faixa, FaixaInvertida}}
    \ {Config(EquacaoSoluvel, TamanhoTorneio, DrawScale, 0, 1, Faixa)}

\* the rates of the direct calls of cruzamento_uniforme: 0.0, 1 / DrawScale, 1.0
ConfigsCruzamento ==
    {Config(EquacaoSoluvel, TamanhoTorneio, tc, 0, 1, Faixa) : tc \in {0, 1, DrawScale}}

\* what the documentation of the constructor (lines 21-27) takes for granted: a
\* population, probabilities, at least one generation, a range
ConfigValida(c) ==
    /\ c.range_min <= c.range_max
    /\ c.tamanho_populacao > 0
    /\ c.taxa_cruzamento >= 0 /\ c.taxa_cruzamento <= DrawScale
    /\ c.taxa_mutacao >= 0 /\ c.taxa_mutacao <= DrawScale
    /\ c.max_geracoes >= 1

\* ------------------------------------------------------------------- state
\* lines 29-39, and a caller that has not called yet
Construido ==
    /\ historico_fitness = << >>
    /\ melhor_individuo = Nenhum
    /\ melhor_fitness = Inf
    /\ geracao = Indefinida
    /\ populacao = << >>
    /\ populacao_avaliada = << >>
    /\ nova_populacao = << >>
    /\ retornos = << >>
    /\ argumentos = << >>
    /\ resultado = << >>
    /\ avaliados = {}
    /\ total_geracoes = 0

Init ==
    /\ \/ /\ cfg \in ConfigsTamanhos \cup ConfigsGrandes \cup ConfigsTorneio
                     \cup ConfigsMutacao \cup ConfigsInvalidas
          /\ chamadas = 1
       \/ /\ cfg \in ConfigsRepetidas
          /\ chamadas = 2
    /\ pc = "pronto"
    /\ Construido

\* the value the for statement binds to geracao next
Proxima == IF geracao = Indefinida THEN 0 ELSE geracao + 1

\* executar starting with the statistics of __init__ again
CriarPopulacaoInicialZerando ==
    /\ pc = "pronto"
    /\ chamadas > 0
    /\ cfg.tamanho_populacao <= 0 \/ cfg.range_min <= cfg.range_max
    /\ chamadas' = chamadas - 1
    /\ populacao' \in [1 .. Max2(cfg.tamanho_populacao, 0) -> Individuos(cfg)]
    /\ pc' = "laco"
    /\ historico_fitness' = << >>
    /\ melhor_individuo' = Nenhum
    /\ melhor_fitness' = Inf
    /\ UNCHANGED << cfg, geracao, populacao_avaliada, nova_populacao, retornos,
                    argumentos, resultado, avaliados, total_geracoes >>

\* lines 162-167: the caller calls executar, which draws the first population
CriarPopulacaoInicial ==
    /\ pc = "pronto"
    /\ chamadas > 0
    /\ cfg.tamanho_populacao <= 0 \/ cfg.range_min <= cfg.range_max
    /\ chamadas' = chamadas - 1
    /\ populacao' \in [1 .. Max2(cfg.tamanho_populacao, 0) -> Individuos(cfg)]
    /\ pc' = "laco"
    /\ UNCHANGED << cfg, historico_fitness, melhor_individuo, melhor_fitness, geracao,
                    populacao_avaliada, nova_populacao, retornos, argumentos,
                    resultado, avaliados, total_geracoes >>

\* lines 169-203: one pass of the for loop, up to the copy of the elite
AvaliarGeracao ==
    /\ pc = "laco"
    /\ Proxima < cfg.max_geracoes
    /\ populacao # << >>
    /\ LET pa == avaliar_populacao(cfg, populacao)
           melhor_atual == pa[1]
           melhorou == Melhorou(melhor_atual[2], melhor_fitness)
       IN  /\ geracao' = Proxima
           /\ populacao_avaliada' = pa
           /\ melhor_individuo' = IF melhorou THEN melhor_atual[1] ELSE melhor_individuo
           /\ melhor_fitness' = IF melhorou THEN melhor_atual[2] ELSE melhor_fitness
           /\ historico_fitness' = Append(historico_fitness,
                  [geracao |-> Proxima,
                   melhor_fitness |-> melhor_atual[2],
                   fitness_medio |-> [num |-> SomaFitness(pa), den |-> Len(pa)],
                   melhor_individuo |-> melhor_atual[1]])
           /\ avaliados' = avaliados \cup {pa[i][2] : i \in 1 .. Len(pa)}
           /\ total_geracoes' = total_geracoes + 1
           /\ IF Convergiu(melhor_atual[2])
              THEN /\ pc' = "fim"
                   /\ nova_populacao' = nova_populacao
              ELSE /\ pc' = "enquanto"
                   /\ nova_populacao' = Elite(pa)
    /\ UNCHANGED << cfg, chamadas, populacao, retornos, argumentos, resultado >>

\* lines 206-215: one pass of the while loop
Reproduzir ==
    /\ pc = "enquanto"
    /\ Len(nova_populacao) < cfg.tamanho_populacao
    /\ Len(populacao_avaliada) >= TamanhoTorneio
    /\ \E par \in Filhos(cfg, populacao_avaliada) :
           nova_populacao' = nova_populacao \o par
    /\ UNCHANGED << cfg, chamadas, historico_fitness, melhor_individuo, melhor_fitness,
                    pc, geracao, populacao, populacao_avaliada, retornos, argumentos,
                    resultado, avaliados, total_geracoes >>

\* lines 206 and 218: the while loop ends and the population is cut to size
AjustarTamanho ==
    /\ pc = "enquanto"
    /\ Len(nova_populacao) >= cfg.tamanho_populacao
    /\ populacao' = Ajustar(nova_populacao, cfg.tamanho_populacao)
    /\ pc' = "laco"
    /\ UNCHANGED << cfg, chamadas, historico_fitness, melhor_individuo, melhor_fitness,
                    geracao, populacao_avaliada, nova_populacao, retornos, argumentos,
                    resultado, avaliados, total_geracoes >>

\* the for loop is left by break or because range(max_geracoes) is used up
SaiuDoLaco == pc = "fim" \/ (pc = "laco" /\ Proxima >= cfg.max_geracoes)

\* lines 220-222: the return; the locals of the call end with it
Finalizar ==
    /\ SaiuDoLaco
    /\ geracao # Indefinida
    /\ retornos' = Append(retornos, << melhor_individuo, melhor_fitness >>)
    /\ pc' = "pronto"
    /\ geracao' = Indefinida
    /\ populacao' = << >>
    /\ populacao_avaliada' = << >>
    /\ nova_populacao' = << >>
    /\ UNCHANGED << cfg, chamadas, historico_fitness, melhor_individuo, melhor_fitness,
                    argumentos, resultado, avaliados, total_geracoes >>

\* where executar raises: randint over an empty range (line 48), the first of an
\* empty ranking (line 174), a sample larger than the ranking (line 106), the
\* format of a geracao that was never bound (line 221)
Levanta ==
    \/ /\ pc = "pronto"
       /\ chamadas > 0
       /\ cfg.tamanho_populacao > 0
       /\ cfg.range_min > cfg.range_max
    \/ /\ pc = "laco"
       /\ Proxima < cfg.max_geracoes
       /\ populacao = << >>
    \/ /\ pc = "enquanto"
       /\ Len(nova_populacao) < cfg.tamanho_populacao
       /\ Len(populacao_avaliada) < TamanhoTorneio
    \/ /\ SaiuDoLaco
       /\ geracao = Indefinida

\* the exception leaves executar; the caller makes no further call
Excecao ==
    /\ Levanta
    /\ pc' = "erro"
    /\ chamadas' = 0
    /\ UNCHANGED << cfg, historico_fitness, melhor_individuo, melhor_fitness,
                    geracao, populacao, populacao_avaliada, nova_populacao,
                    retornos, argumentos, resultado, avaliados, total_geracoes >>

Next ==
    \/ CriarPopulacaoInicial
    \/ AvaliarGeracao
    \/ Reproduzir
    \/ AjustarTamanho
    \/ Finalizar
    \/ Excecao

Spec == Init /\ [][Next]_vars

\* Init without the populations in which a tournament has a choice
InitJusta ==
    /\ \/ /\ cfg \in {c \in ConfigsTamanhos : c.tamanho_populacao <= TamanhoTorneio}
                     \cup ConfigsGrandes \cup ConfigsInvalidas
          /\ chamadas = 1
       \/ /\ cfg \in ConfigsRepetidas
          /\ chamadas = 2
    /\ pc = "pronto"
    /\ Construido

\* executar is sequential code: whatever step is possible is taken
SpecJusta == InitJusta /\ [][Next]_vars /\ WF_vars(Next)

\* ------------------------------------- cruzamento_uniforme called directly
InitCruzamento ==
    /\ cfg \in ConfigsCruzamento
    /\ chamadas = 0
    /\ pc = "cruzar"
    /\ Construido

\* lines 121-131, on two individuals of the range
ChamarCruzamento ==
    /\ pc \in {"cruzar", "cruzou"}
    /\ \E pai1 \in Individuos(cfg), pai2 \in Individuos(cfg) :
         \E r \in Draws, moedas \in [1 .. NumGenes -> Draws] :
            /\ argumentos' = << pai1, pai2 >>
            /\ resultado' = cruzamento_uniforme(cfg, pai1, pai2, r, moedas)
    /\ pc' = "cruzou"
    /\ UNCHANGED << cfg, chamadas, historico_fitness, melhor_individuo, melhor_fitness,
                    geracao, populacao, populacao_avaliada, nova_populacao, retornos,
                    avaliados, total_geracoes >>

SpecCruzamento == InitCruzamento /\ [][ChamarCruzamento]_vars

\* ------------------------------------------------------------------ claims
NaFaixa(individuo) ==
    /\ DOMAIN individuo = 1 .. NumGenes
    /\ \A i \in 1 .. NumGenes :
          individuo[i] >= cfg.range_min /\ individuo[i] <= cfg.range_max

IndividuosDe(pa) == {pa[i][1] : i \in 1 .. Len(pa)}

MinimoDe(S) == CHOOSE x \in S : \A y \in S : x <= y

EhPrefixo(s, t) == Len(s) <= Len(t) /\ SubSeq(t, 1, Len(s)) = s

\* no individual of the range solves the equation
SemSolucao == \A ind \in Individuos(cfg) : calcular_fitness(cfg, ind) # 0

\* the while loop is about to run a pass
VaiReproduzir ==
    /\ pc = "enquanto"
    /\ Len(nova_populacao) < cfg.tamanho_populacao
    /\ Len(populacao_avaliada) >= TamanhoTorneio

\* C1: with range_min <= range_max, every gene of every individual that executar
\* holds, records or returns, and of every individual a tournament or a crossover
\* can hand to the while loop, lies within [range_min, range_max].
C1_GenesNaFaixa ==
    cfg.range_min <= cfg.range_max =>
        /\ \A i \in 1 .. Len(populacao) : NaFaixa(populacao[i])
        /\ \A i \in 1 .. Len(nova_populacao) : NaFaixa(nova_populacao[i])
        /\ \A ind \in IndividuosDe(populacao_avaliada) : NaFaixa(ind)
        /\ melhor_individuo # Nenhum => NaFaixa(melhor_individuo)
        /\ \A i \in 1 .. Len(historico_fitness) :
              NaFaixa(historico_fitness[i].melhor_individuo)
        /\ \A i \in 1 .. Len(retornos) : NaFaixa(retornos[i][1])
        /\ VaiReproduzir =>
              \A p1 \in Vencedores(populacao_avaliada), p2 \in Vencedores(populacao_avaliada) :
                 /\ NaFaixa(p1)
                 /\ \A par \in Cruzamentos(cfg, p1, p2) : NaFaixa(par[1]) /\ NaFaixa(par[2])

\* a pass of the while loop, with mutation on, has appended a child that is no
\* individual of the generation it was bred from
C1_Witness ==
    /\ pc = "enquanto"
    /\ cfg.taxa_mutacao > 0
    /\ \E i \in (NumElite + 1) .. Len(nova_populacao) :
          nova_populacao[i] \notin IndividuosDe(populacao_avaliada)

\* C2: for tamanho_populacao >= 1 every population that the for loop is about to
\* evaluate, and every ranking it has made, has exactly tamanho_populacao members.
C2_TamanhoConstante ==
    cfg.tamanho_populacao >= 1 =>
        /\ pc = "laco" => Len(populacao) = cfg.tamanho_populacao
        /\ pc \in {"enquanto", "fim"} => Len(populacao_avaliada) = cfg.tamanho_populacao

\* a rebuilt population from which the cut removed the second child of a pair
C2_Witness ==
    /\ pc = "laco"
    /\ geracao # Indefinida
    /\ Len(populacao) = cfg.tamanho_populacao
    /\ Len(nova_populacao) > cfg.tamanho_populacao

\* C3: melhor_fitness never increases; it changes only in a generation whose best
\* fitness is strictly lower, and to that fitness; after every generation it is the
\* least fitness evaluated so far and melhor_individuo has exactly that fitness.
C3_MelhorGlobal ==
    /\ [](IF avaliados = {}
          THEN melhor_fitness = Inf /\ melhor_individuo = Nenhum
          ELSE /\ melhor_fitness = MinimoDe(avaliados)
               /\ melhor_individuo # Nenhum
               /\ calcular_fitness(cfg, melhor_individuo) = melhor_fitness)
    /\ [][\/ melhor_fitness' = melhor_fitness /\ melhor_individuo' = melhor_individuo
          \/ /\ MenorQue(melhor_fitness', melhor_fitness)
             /\ Len(historico_fitness') = Len(historico_fitness) + 1
             /\ historico_fitness'[Len(historico_fitness')].melhor_fitness = melhor_fitness'
             /\ historico_fitness'[Len(historico_fitness')].melhor_individuo = melhor_individuo'
         ]_vars

\* the second generation of a run was strictly better than the first
C3_Witness ==
    /\ Len(historico_fitness) >= 2
    /\ historico_fitness[2].geracao = 1
    /\ historico_fitness[2].melhor_fitness < historico_fitness[1].melhor_fitness
    /\ melhor_fitness = historico_fitness[2].melhor_fitness

\* C4: with tamanho_populacao >= 2, the individuals ranked first and second in a
\* generation sit, with the same genes, in two places of the population built from it.
C4_ElitePreservada ==
    (pc = "laco" /\ geracao # Indefinida /\ cfg.tamanho_populacao >= 2) =>
        \E i, j \in 1 .. Len(populacao) :
            /\ i # j
            /\ populacao[i] = populacao_avaliada[1][1]
            /\ populacao[j] = populacao_avaliada[2][1]

\* a rebuilt population whose last member is a child that the generation before
\* did not contain
C4_Witness ==
    /\ pc = "laco"
    /\ geracao # Indefinida
    /\ cfg.tamanho_populacao >= TamanhoTorneio
    /\ populacao[Len(populacao)] \notin IndividuosDe(populacao_avaliada)

\* the record that opens the run in progress, or the run that returned last
InicioDaChamada ==
    CHOOSE k \in 1 .. Len(historico_fitness) :
        /\ historico_fitness[k].geracao = 0
        /\ \A j \in (k + 1) .. Len(historico_fitness) : historico_fitness[j].geracao # 0

\* executar has broken out of the for loop: the generation just recorded has best
\* fitness 0 and the population is still the one that was evaluated
ParouAoConvergir ==
    pc = "fim" =>
        /\ historico_fitness[Len(historico_fitness)].melhor_fitness = 0
        /\ historico_fitness[Len(historico_fitness)].geracao = geracao
        /\ populacao_avaliada = avaliar_populacao(cfg, populacao)

\* executar has returned: its records are generations 0, 1, ..., none but the last
\* has best fitness 0, and the last has it or is generation max_geracoes - 1
RetornouNaHora ==
    (pc = "pronto" /\ retornos # << >>) =>
        LET k == InicioDaChamada
            u == Len(historico_fitness)
        IN  /\ \A i \in k .. u : historico_fitness[i].geracao = i - k
            /\ \A i \in k .. (u - 1) : historico_fitness[i].melhor_fitness # 0
            /\ historico_fitness[u].melhor_fitness # 0 => u - k + 1 = cfg.max_geracoes
            /\ u - k + 1 <= cfg.max_geracoes
            /\ retornos[Len(retornos)] = << melhor_individuo, melhor_fitness >>
            /\ SemSolucao => (u - k + 1 = cfg.max_geracoes /\ retornos[Len(retornos)][2] > 0)

C6_ConfigRejeitada ==
    ~ConfigValida(cfg) =>
        /\ avaliados = {}
        /\ historico_fitness = << >>
        /\ melhor_individuo = Nenhum
        /\ melhor_fitness = Inf
        /\ retornos = << >>

\* C7: with taxa_cruzamento = 0, cruzamento_uniforme returns its two parents gene
\* for gene, whatever the draw, 0.0 included.
C7_TaxaZeroDevolveOsPais ==
    (pc = "cruzou" /\ cfg.taxa_cruzamento = 0) => resultado = argumentos

\* C9: in one run the best fitness of a generation is never above that of the
\* generation before, and during the first run of an instance the best fitness of
\* the last record is melhor_fitness.
C9_MelhorDaGeracaoNaoPiora ==
    /\ \A i \in 1 .. (Len(historico_fitness) - 1) :
          historico_fitness[i + 1].geracao # 0 =>
              historico_fitness[i + 1].melhor_fitness <= historico_fitness[i].melhor_fitness
    /\ (retornos = << >> /\ historico_fitness # << >>) =>
          historico_fitness[Len(historico_fitness)].melhor_fitness = melhor_fitness

\* with mutation on, the second generation holds an individual worse than the best
\* of the first, and its best equals the best of the first
C9_Witness ==
    /\ pc = "enquanto"
    /\ geracao = 1
    /\ cfg.taxa_mutacao > 0
    /\ Len(historico_fitness) = 2
    /\ historico_fitness[2].melhor_fitness = historico_fitness[1].melhor_fitness
    /\ populacao_avaliada[Len(populacao_avaliada)][2] > historico_fitness[1].melhor_fitness
    /\ populacao_avaliada[Len(populacao_avaliada)][1] \notin
          {populacao[i] : i \in 1 .. NumElite}

\* C10: no step of executar shortens or rewrites historico_fitness or sets
\* melhor_individuo or melhor_fitness back; a later call numbers its records from 0
\* behind those of the earlier call, so that the records are as many as the
\* generations of all calls, and it returns a fitness no greater than the earlier one.
C10_NadaReiniciado ==
    /\ [](/\ Len(historico_fitness) = total_geracoes
          /\ geracao # Indefinida =>
                /\ historico_fitness[Len(historico_fitness)].geracao = geracao
                /\ Cardinality({i \in 1 .. Len(historico_fitness) :
                                   historico_fitness[i].geracao = 0}) = Len(retornos) + 1
          /\ \A i \in 1 .. (Len(retornos) - 1) : retornos[i + 1][2] <= retornos[i][2])
    /\ [][/\ EhPrefixo(historico_fitness, historico_fitness')
          /\ melhor_individuo # Nenhum => melhor_individuo' # Nenhum
          /\ melhor_fitness # Inf => melhor_fitness' # Inf
         ]_vars

\* the second call returned a strictly better fitness than the first
C10_Witness ==
    /\ Len(retornos) = 2
    /\ retornos[2][2] < retornos[1][2]
    /\ Len(historico_fitness) >= 3

====
